---- MODULE Spec2Model ----
(***************************************************************************)
(* otfinst: classification and explosion of OpenType fonts into Berry      *)
(* family / series / shape / optical-range buckets (src/otfinst.py).       *)
(*                                                                         *)
(* Strings.  A Python string is a sequence of atoms.  An atom is either    *)
(* the separator "-" or a non-empty separator-free piece of text, and no   *)
(* two text atoms are ever adjacent, so equal strings have equal           *)
(* representations: "" is <<>>, "bold" is <<"bold">>, "regular-smcp" is    *)
(* <<"regular","-","smcp">>.  Berry codes are built by concatenation, so   *)
(* they are sequences of characters: "sc" is <<"s","c">>.                  *)
(***************************************************************************)
EXTENDS Integers, Sequences, FiniteSets, TLC

VARIABLES cfg, pc, nfiles, fonthash, classifiedFonts, explodedFonts, work, cur, combos, last, call,
          fontfiles, named, families, styfiles, written, installcommands, executed

vars == <<cfg, pc, nfiles, fonthash, classifiedFonts, explodedFonts, work, cur, combos, last, call,
          fontfiles, named, families, styfiles, written, installcommands, executed>>

(* what generateFDandSTY and executeCommands write *)
emitVars == <<families, styfiles, written, installcommands, executed>>

(***************************************************************************)
(* Bounds                                                                  *)
(***************************************************************************)
MaxFonts == 2

MaxGroups == 2

MaxChoices == 2

MaxTokens == 2

MaxPairs == 3

(***************************************************************************)
(* Generic sequence helpers                                                *)
(***************************************************************************)
Range(s) == {s[i] : i \in 1..Len(s)}

SeqsUpTo(S, n) == UNION {[1..k -> S] : k \in 0..n}

RECURSIVE Concat(_)
Concat(ss) == IF ss = <<>> THEN <<>> ELSE Head(ss) \o Concat(Tail(ss))

(* a token or an empty choice as a string *)
Str(t) == IF t = "" THEN <<>> ELSE <<t>>

(***************************************************************************)
(* l2s / s2l                                                               *)
(***************************************************************************)
sep == "-"

RECURSIVE l2s(_)
l2s(l) ==
    IF l = <<>> THEN <<>>
    ELSE IF Len(l) = 1 THEN l[1]
    ELSE l[1] \o <<sep>> \o l2s(Tail(l))

RECURSIVE split(_)
split(s) ==
    IF \A i \in 1..Len(s) : s[i] # sep THEN <<s>>
    ELSE LET k == CHOOSE i \in 1..Len(s) : s[i] = sep /\ \A j \in 1..(i-1) : s[j] # sep
         IN  <<SubSeq(s, 1, k-1)>> \o split(SubSeq(s, k+1, Len(s)))

s2l(s) == IF s = <<>> THEN <<>> ELSE split(s)

(***************************************************************************)
(* unique: stable, keeps the first occurrence                              *)
(***************************************************************************)
RECURSIVE uniqueFrom(_, _)
uniqueFrom(s, u) ==
    IF s = <<>> THEN <<>>
    ELSE IF Head(s) \in u THEN uniqueFrom(Tail(s), u)
    ELSE <<Head(s)>> \o uniqueFrom(Tail(s), u \cup {Head(s)})

unique(s) == uniqueFrom(s, {})

(***************************************************************************)
(* breakout: the generator's yields, in order                              *)
(***************************************************************************)
(* variant: the loop over the rest of the groups made the outer loop *)
RECURSIVE breakoutRestOuter(_, _)
breakoutRestOuter(choices, rest) ==
    IF rest = <<>> THEN <<>>
    ELSE [i \in 1..Len(choices) |->
             IF choices[i] # "" THEN <<choices[i]>> \o Head(rest) ELSE Head(rest)]
         \o breakoutRestOuter(choices, Tail(rest))

(* variant: the test "if i" left out, so an empty choice is kept *)
RECURSIVE breakoutKeepEmpty(_, _)
breakoutKeepEmpty(choices, rest) ==
    IF choices = <<>> THEN <<>>
    ELSE [j \in 1..Len(rest) |-> <<Head(choices)>> \o rest[j]]
         \o breakoutKeepEmpty(Tail(choices), rest)

RECURSIVE breakoutChoices(_, _)
breakoutChoices(choices, rest) ==
    IF choices = <<>> THEN <<>>
    ELSE (IF Head(choices) # ""
          THEN [j \in 1..Len(rest) |-> <<Head(choices)>> \o rest[j]]
          ELSE rest)
         \o breakoutChoices(Tail(choices), rest)

RECURSIVE breakout(_)
breakout(lyst) ==
    IF lyst = <<>> THEN << <<>> >>
    ELSE breakoutChoices(Head(lyst), breakout(Tail(lyst)))

(***************************************************************************)
(* User-settable variables.  Shipped is the file as distributed; the other *)
(* configurations are edits the comments of the file invite ("add more to  *)
(* optionList if you want the script to support them").                    *)
(***************************************************************************)
encoding == <<"LY1">>

optionMappings ==
    [t \in {"lnum", "onum", "fakenum", "swsh", "sinf", "sups", "pnum", "smcp",
            "thin", "extralight", "light", "book", "medium", "demibold",
            "semibold", "bold", "extrabold", "black", "heavy",
            "condensed", "cond", "cn", "narrow", "semicondensed",
            "semiextended", "extended",
            "italic", "it", "slanted", "oblique", "outline", "regular"} |->
        CASE t = "lnum" -> <<"x">>
          [] t = "onum" -> <<"j">>
          [] t = "fakenum" -> <<>>
          [] t = "swsh" -> <<"w">>
          [] t = "sinf" -> <<"0">>
          [] t = "sups" -> <<"1">>
          [] t = "pnum" -> <<"2">>
          [] t = "smcp" -> <<"s", "c">>
          [] t = "thin" -> <<"u", "l">>
          [] t = "extralight" -> <<"e", "l">>
          [] t = "light" -> <<"l">>
          [] t = "book" -> <<"m">>
          [] t = "medium" -> <<"m", "b">>
          [] t = "demibold" -> <<"d", "b">>
          [] t = "semibold" -> <<"s", "b">>
          [] t = "bold" -> <<"b">>
          [] t = "extrabold" -> <<"e", "b">>
          [] t = "black" -> <<"e", "b">>
          [] t = "heavy" -> <<"e", "b">>
          [] t = "condensed" -> <<"c">>
          [] t = "cond" -> <<"c">>
          [] t = "cn" -> <<"c">>
          [] t = "narrow" -> <<"n">>
          [] t = "semicondensed" -> <<"s", "c">>
          [] t = "semiextended" -> <<"s", "x">>
          [] t = "extended" -> <<"x">>
          [] t = "italic" -> <<"i", "t">>
          [] t = "it" -> <<"i", "t">>
          [] t = "slanted" -> <<"s", "l">>
          [] t = "oblique" -> <<"s", "l">>
          [] t = "outline" -> <<"o", "l">>
          [] t = "regular" -> <<>>]

optionList ==
    << <<"kern">>, <<"liga">>,
       <<"lnum", "onum", "swsh", "sinf", "sups", "pnum", "fakenum">>,
       <<"smcp", "">> >>

globalOptionList == {"kern", "liga"}

newFontFamilyOptionList == {"lnum", "onum", "swsh", "sinf", "sups", "pnum", "fakenum"}

weightOptionList == {}

widthOptionList == {}

(* variant: liga listed as a variant option as well *)
variantOptionListWithLiga == {"smcp", "liga"}

variantOptionList == {"smcp"}

fakeOptionList == {"fakenum"}

Shipped ==
    [optionList |-> optionList,
     globalOptionList |-> globalOptionList,
     newFontFamilyOptionList |-> newFontFamilyOptionList,
     weightOptionList |-> weightOptionList,
     widthOptionList |-> widthOptionList,
     variantOptionList |-> variantOptionList,
     fakeOptionList |-> fakeOptionList,
     optionMappings |-> optionMappings]

(* a user who adds petite caps as a second variant option, and two         *)
(* stylistic sets that select a bold and a condensed design                *)
UserAxes ==
    [Shipped EXCEPT
       !.optionList = optionList \o << <<"pcap", "">>, <<"ss01", "ss02", "">> >>,
       !.weightOptionList = {"ss01"},
       !.widthOptionList = {"ss02"},
       !.variantOptionList = {"smcp", "pcap"},
       !.optionMappings = ("pcap" :> <<"p", "c">>) @@ ("ss01" :> <<"b">>)
                          @@ ("ss02" :> <<"c">>) @@ optionMappings]

(* a user who adds options to the lists but not to optionMappings          *)
UserUnmapped ==
    [Shipped EXCEPT
       !.optionList = << <<"kern">>, <<"liga">>,
                         <<"lnum", "onum", "swsh", "sinf", "sups", "pnum", "tnum", "fakenum">>,
                         <<"smcp", "">>, <<"dlig", "">>, <<"salt", "">> >>,
       !.globalOptionList = {"kern", "liga", "dlig"},
       !.newFontFamilyOptionList = newFontFamilyOptionList \cup {"tnum"},
       !.variantOptionList = {"smcp", "salt"}]

(* a user who cuts the numeral group down to lining and old-style figures *)
UserTwoNumerals ==
    [Shipped EXCEPT
       !.optionList = << <<"kern">>, <<"liga">>, <<"lnum", "onum">>, <<"smcp", "">> >>]

Configs == {Shipped, UserAxes, UserUnmapped, UserTwoNumerals}

(***************************************************************************)
(* berryname: the three-letter Berry code of each family, a sequence of    *)
(* characters like every Berry code.                                       *)
(***************************************************************************)
berrynameFamilies ==
    {"Minion Pro", "Myriad Pro", "Adobe Garamond Pro",
     "Garamond Premier Pro", "Adobe Caslon Pro", "Adobe Jenson Pro",
     "Adobe Text Pro", "Adobe Monospace", "Utopia Std", "Warnock Pro",
     "Kepler Std", "Prestige Elite Std", "Calibri", "Cambria", "Candara",
     "Consolas", "Constantia", "Corbel", "MetaPro", "Arno Pro",
     "ScalaSansPro", "Hypatia Sans Pro", "ITC Berkeley Oldstyle Std",
     "Zapfino Extra LT Pro", "Bickham Script Std", "CaslonAntique",
     "FlemishScript BT", "Liberation Sans", "Liberation Serif",
     "Liberation Mono", "Montag", "Times NR MT Std", "Bree", "Ronnia",
     "Sabon LT Std", "Inconsolata", "Inconsolata XL", "Hack", "QuioscoOne",
     "TeX Gyre Bonum", "TeX Gyre Pagella", "TeX Gyre Termes",
     "TeX Gyre Heros", "TeX Gyre Heros Cn", "TeX Gyre Cursor",
     "TeX Gyre Schola", "TeX Gyre Adventor", "TeX Gyre Chorus"}

berryname ==
    [f \in berrynameFamilies |->
        CASE f = "Minion Pro" -> <<"p", "m", "n">>
          [] f = "Myriad Pro" -> <<"p", "m", "y">>
          [] f = "Adobe Garamond Pro" -> <<"p", "a", "g">>
          [] f = "Garamond Premier Pro" -> <<"p", "a", "d">>
          [] f = "Adobe Caslon Pro" -> <<"p", "a", "c">>
          [] f = "Adobe Jenson Pro" -> <<"p", "a", "j">>
          [] f = "Adobe Text Pro" -> <<"p", "t", "x">>
          [] f = "Adobe Monospace" -> <<"p", "t", "9">>
          [] f = "Utopia Std" -> <<"p", "u", "t">>
          [] f = "Warnock Pro" -> <<"p", "w", "p">>
          [] f = "Kepler Std" -> <<"p", "k", "p">>
          [] f = "Prestige Elite Std" -> <<"p", "p", "e">>
          [] f = "Calibri" -> <<"j", "k", "0">>
          [] f = "Cambria" -> <<"j", "k", "1">>
          [] f = "Candara" -> <<"j", "k", "2">>
          [] f = "Consolas" -> <<"j", "k", "3">>
          [] f = "Constantia" -> <<"j", "k", "4">>
          [] f = "Corbel" -> <<"j", "k", "5">>
          [] f = "MetaPro" -> <<"0", "m", "2">>
          [] f = "Arno Pro" -> <<"p", "a", "0">>
          [] f = "ScalaSansPro" -> <<"0", "s", "a">>
          [] f = "Hypatia Sans Pro" -> <<"p", "h", "y">>
          [] f = "ITC Berkeley Oldstyle Std" -> <<"i", "b", "y">>
          [] f = "Zapfino Extra LT Pro" -> <<"l", "z", "f">>
          [] f = "Bickham Script Std" -> <<"p", "i", "k">>
          [] f = "CaslonAntique" -> <<"9", "c", "a">>
          [] f = "FlemishScript BT" -> <<"b", "f", "0">>
          [] f = "Liberation Sans" -> <<"f", "l", "a">>
          [] f = "Liberation Serif" -> <<"f", "l", "r">>
          [] f = "Liberation Mono" -> <<"f", "l", "m">>
          [] f = "Montag" -> <<"f", "m", "9">>
          [] f = "Times NR MT Std" -> <<"m", "n", "t">>
          [] f = "Bree" -> <<"f", "e", "3">>
          [] f = "Ronnia" -> <<"f", "r", "5">>
          [] f = "Sabon LT Std" -> <<"l", "s", "b">>
          [] f = "Inconsolata" -> <<"f", "i", "4">>
          [] f = "Inconsolata XL" -> <<"f", "i", "x">>
          [] f = "Hack" -> <<"f", "h", "k">>
          [] f = "QuioscoOne" -> <<"f", "q", "1">>
          [] f = "TeX Gyre Bonum" -> <<"q", "b", "k">>
          [] f = "TeX Gyre Pagella" -> <<"q", "p", "l">>
          [] f = "TeX Gyre Termes" -> <<"q", "t", "m">>
          [] f = "TeX Gyre Heros" -> <<"q", "h", "v">>
          [] f = "TeX Gyre Heros Cn" -> <<"q", "h", "x">>
          [] f = "TeX Gyre Cursor" -> <<"q", "c", "r">>
          [] f = "TeX Gyre Schola" -> <<"q", "c", "s">>
          [] f = "TeX Gyre Adventor" -> <<"q", "a", "g">>
          [] f = "TeX Gyre Chorus" -> <<"q", "z", "c">>]

(* niceFontName of a piece of text without separator: lower case, " pro" *)
(* and " std" removed, then the spaces removed                            *)
niceName(a) ==
    CASE a = "Minion Pro" -> "minion"
      [] a = "Myriad Pro" -> "myriad"
      [] a = "Adobe Garamond Pro" -> "adobegaramond"
      [] a = "Garamond Premier Pro" -> "garamondpremier"
      [] a = "Adobe Caslon Pro" -> "adobecaslon"
      [] a = "Adobe Jenson Pro" -> "adobejenson"
      [] a = "Adobe Text Pro" -> "adobetext"
      [] a = "Adobe Monospace" -> "adobemonospace"
      [] a = "Utopia Std" -> "utopia"
      [] a = "Warnock Pro" -> "warnock"
      [] a = "Kepler Std" -> "kepler"
      [] a = "Prestige Elite Std" -> "prestigeelite"
      [] a = "Calibri" -> "calibri"
      [] a = "Cambria" -> "cambria"
      [] a = "Candara" -> "candara"
      [] a = "Consolas" -> "consolas"
      [] a = "Constantia" -> "constantia"
      [] a = "Corbel" -> "corbel"
      [] a = "MetaPro" -> "metapro"
      [] a = "Arno Pro" -> "arno"
      [] a = "ScalaSansPro" -> "scalasanspro"
      [] a = "Hypatia Sans Pro" -> "hypatiasans"
      [] a = "ITC Berkeley Oldstyle Std" -> "itcberkeleyoldstyle"
      [] a = "Zapfino Extra LT Pro" -> "zapfinoextralt"
      [] a = "Bickham Script Std" -> "bickhamscript"
      [] a = "CaslonAntique" -> "caslonantique"
      [] a = "FlemishScript BT" -> "flemishscriptbt"
      [] a = "Liberation Sans" -> "liberationsans"
      [] a = "Liberation Serif" -> "liberationserif"
      [] a = "Liberation Mono" -> "liberationmono"
      [] a = "Montag" -> "montag"
      [] a = "Times NR MT Std" -> "timesnrmt"
      [] a = "Bree" -> "bree"
      [] a = "Ronnia" -> "ronnia"
      [] a = "Sabon LT Std" -> "sabonlt"
      [] a = "Inconsolata" -> "inconsolata"
      [] a = "Inconsolata XL" -> "inconsolataxl"
      [] a = "Hack" -> "hack"
      [] a = "QuioscoOne" -> "quioscoone"
      [] a = "TeX Gyre Bonum" -> "texgyrebonum"
      [] a = "TeX Gyre Pagella" -> "texgyrepagella"
      [] a = "TeX Gyre Termes" -> "texgyretermes"
      [] a = "TeX Gyre Heros" -> "texgyreheros"
      [] a = "TeX Gyre Heros Cn" -> "texgyreheroscn"
      [] a = "TeX Gyre Cursor" -> "texgyrecursor"
      [] a = "TeX Gyre Schola" -> "texgyreschola"
      [] a = "TeX Gyre Adventor" -> "texgyreadventor"
      [] a = "TeX Gyre Chorus" -> "texgyrechorus"
      [] a = "Nova Sans" -> "novasans"
      [] a = "A" -> "a"
      [] a = "B" -> "b"
      [] a = "-" -> "-"
      [] OTHER -> a

niceFontName(str) == [i \in 1..Len(str) |-> niceName(str[i])]

(* letterize: every digit of a Berry code spelled out *)
letterizeChar(c) ==
    CASE c = "0" -> <<"z", "e", "r", "o">>
      [] c = "1" -> <<"o", "n", "e">>
      [] c = "2" -> <<"t", "w", "o">>
      [] c = "3" -> <<"t", "h", "r", "e", "e">>
      [] c = "4" -> <<"f", "o", "u", "r">>
      [] c = "5" -> <<"f", "i", "v", "e">>
      [] c = "6" -> <<"s", "i", "x">>
      [] c = "7" -> <<"s", "e", "v", "e", "n">>
      [] c = "8" -> <<"e", "i", "g", "h", "t">>
      [] c = "9" -> <<"n", "i", "n", "e">>
      [] OTHER -> <<c>>

letterize(s) == Concat([i \in 1..Len(s) |-> letterizeChar(s[i])])

(* encoding.lower() *)
encodingLower == <<"l", "y", "1">>

(***************************************************************************)
(* buildSeries / buildShape.  A failed optionMappings lookup raises        *)
(* KeyError, which no caller catches.                                      *)
(***************************************************************************)
KeyError == <<"KeyError">>

HasMapping(s) == Len(s) = 1 /\ s[1] \in DOMAIN cfg.optionMappings

(* variant: a missing entry read as the empty code instead of raising *)
codesLenient(opts) ==
    Concat([i \in 1..Len(opts) |->
               IF HasMapping(opts[i]) THEN cfg.optionMappings[opts[i][1]] ELSE <<>>])

codes(opts) ==
    IF \E i \in 1..Len(opts) : ~HasMapping(opts[i]) THEN KeyError
    ELSE Concat([i \in 1..Len(opts) |-> cfg.optionMappings[opts[i][1]]])

(* list.remove: drops the first occurrence *)
remove(l, x) ==
    LET k == CHOOSE i \in 1..Len(l) : l[i] = x /\ \A j \in 1..(i-1) : l[j] # x
    IN  SubSeq(l, 1, k-1) \o SubSeq(l, k+1, Len(l))

(* variant: the width tokens taken before the weight tokens *)
buildSeriesWidthFirst(weight, width) ==
    LET seriesopts == unique(s2l(width) \o s2l(weight))
    IN  IF l2s(seriesopts) = <<"regular">> \/ seriesopts = <<>> THEN <<"m">>
        ELSE codes(seriesopts)

buildSeries(weight, width) ==
    LET seriesopts == unique(s2l(weight) \o s2l(width))
    IN  IF l2s(seriesopts) = <<"regular">> \/ seriesopts = <<>> THEN <<"m">>
        ELSE codes(seriesopts)

(* variant: the reserved code "n" given only to the empty variant *)
buildShapeNoRegular(variant) ==
    LET shapeopts == unique(s2l(variant))
        both == <<"italic">> \in Range(shapeopts) /\ <<"smcp">> \in Range(shapeopts)
        rest == IF both THEN remove(remove(shapeopts, <<"italic">>), <<"smcp">>)
                ELSE shapeopts
    IN  IF shapeopts = <<>> THEN <<"n">>
        ELSE IF codes(rest) = KeyError THEN KeyError
        ELSE (IF both THEN <<"s", "i">> ELSE <<>>) \o codes(rest)

buildShape(variant) ==
    LET shapeopts == unique(s2l(variant))
        both == <<"italic">> \in Range(shapeopts) /\ <<"smcp">> \in Range(shapeopts)
        rest == IF both THEN remove(remove(shapeopts, <<"italic">>), <<"smcp">>)
                ELSE shapeopts
    IN  IF l2s(shapeopts) = <<"regular">> \/ shapeopts = <<>> THEN <<"n">>
        ELSE IF codes(rest) = KeyError THEN KeyError
        ELSE (IF both THEN <<"s", "i">> ELSE <<>>) \o codes(rest)

(***************************************************************************)
(* Font files: what otfinfo reports for each candidate file.  subfamily is *)
(* the Subfamily field after the split into lowercase words, features the  *)
(* four-letter tags of --features, optical the two bounds of               *)
(* --optical-size in decipoints (<<>> when the font has none), vendor the  *)
(* domain label of the Vendor URL ("" when the field is absent).           *)
(***************************************************************************)
FontFile(fn, ps, fam, sub, ven, feat, opt) ==
    [filename |-> fn, postScriptName |-> ps, family |-> fam, subfamily |-> sub,
     vendor |-> ven, features |-> feat, optical |-> opt]

FontFiles ==
    { FontFile("MinionPro-Regular.otf", <<"MinionPro", "-", "Regular">>, <<"Minion Pro">>,
               <<"regular">>, "adobe", <<"kern", "liga", "lnum", "onum", "smcp">>, <<>>),
      FontFile("MinionPro-It.otf", <<"MinionPro", "-", "It">>, <<"Minion Pro">>,
               <<"it">>, "adobe", <<"kern", "liga", "onum", "smcp", "pcap">>, <<>>),
      FontFile("MinionPro-BoldItCapt.otf", <<"MinionPro", "-", "BoldItCapt">>, <<"Minion Pro">>,
               <<"bold", "italic">>, "adobe", <<"kern", "smcp", "salt">>, <<60, 84>>),
      FontFile("minion-clone.otf", <<"Minion">>, <<"Minion Pro">>,
               <<"roman">>, "", <<"kern", "liga", "onum", "tnum", "smcp", "pcap", "dlig">>, <<>>),
      FontFile("Minion-onum.otf", <<"Minion", "-", "onum">>, <<"Minion Pro">>,
               <<"regular">>, "", <<"kern", "liga">>, <<>>),
      FontFile("AB-BoldExt.otf", <<"AB", "-", "BoldExt">>, <<"A", "-", "B">>,
               <<"bold", "extended", "bold">>, "", <<"kern", "tnum">>, <<>>),
      FontFile("MyriadPro-SemiCnIt.otf", <<"MyriadPro", "-", "SemiCnIt">>, <<"Myriad Pro">>,
               <<"semibold", "cond", "italic">>, "adobe",
               <<"kern", "onum", "smcp", "pcap", "ss01", "ss02">>, <<>>),
      FontFile("Nova-BoldExtra.otf", <<"Nova", "-", "BoldExtra">>, <<"Nova Sans">>,
               <<"bold", "extra">>, "nova", <<"kern">>, <<>>),
      FontFile("Nova-XLight.otf", <<"Nova", "-", "XLight">>, <<"Nova Sans">>,
               <<"extra", "light", "regular", "display">>, "nova", <<"tnum">>, <<84, 130>>) }

(* "extra" + x *)
extraPlus(x) ==
    CASE x = "light" -> "extralight"
      [] x = "bold" -> "extrabold"
      [] x = "extra" -> "extraextra"
      [] OTHER -> "extra?"

(* str(float(pt) + 0.1) for a size given in decipoints *)
ptPlusTenth(d) ==
    CASE d = 60 -> "6.1"
      [] d = 84 -> "8.5"
      [] d = 130 -> "13.1"
      [] OTHER -> "?"

weightTable ==
    {"regular", "thin", "extralight", "light", "book", "medium", "demibold",
     "semibold", "bold", "extrabold", "black", "heavy"}

widthTable ==
    {"regular", "condensed", "cond", "cn", "semicondensed", "narrow",
     "semiextended", "extended"}

(* variant: "display" taken for a variant word *)
variantTableWithDisplay == {"regular", "italic", "it", "slanted", "oblique", "outline", "display"}

variantTable == {"regular", "italic", "it", "slanted", "oblique", "outline"}

(* the tags t with t[1:4] == "num" *)
numTags == {"lnum", "onum", "pnum", "tnum"}

(* the axis words in the order Python's string comparison gives them *)
wordOrder ==
    <<"black", "bold", "book", "cn", "cond", "condensed", "demibold", "extended",
      "extrabold", "extralight", "heavy", "it", "italic", "light", "medium",
      "narrow", "oblique", "outline", "regular", "semibold", "semicondensed",
      "semiextended", "slanted", "thin">>

rank(w) == CHOOSE i \in 1..Len(wordOrder) : wordOrder[i] = w

RECURSIVE insertSorted(_, _)
insertSorted(w, l) ==
    IF l = <<>> THEN <<w>>
    ELSE IF rank(w) < rank(Head(l)) THEN <<w>> \o l
    ELSE <<Head(l)>> \o insertSorted(w, Tail(l))

RECURSIVE sort(_)
sort(l) == IF l = <<>> THEN <<>> ELSE insertSorted(Head(l), sort(Tail(l)))

SelectIn(l, T) == SelectSeq(l, LAMBDA w : w \in T)

firstIndex(l, x) == CHOOSE i \in 1..Len(l) : l[i] = x /\ \A j \in 1..(i-1) : l[j] # x

(* 'roman' becomes 'regular' (first occurrence only) *)
replaceRoman(sub) ==
    IF "roman" \in Range(sub) THEN [sub EXCEPT ![firstIndex(sub, "roman")] = "regular"]
    ELSE sub

(* 'extra x' becomes 'extrax'; an 'extra' in last position raises IndexError *)
IndexError == <<"IndexError">>

RECURSIVE combineExtra(_)
combineExtra(sub) ==
    IF "extra" \notin Range(sub) THEN sub
    ELSE LET k == firstIndex(sub, "extra")
         IN  IF k = Len(sub) THEN IndexError
             ELSE combineExtra(remove([sub EXCEPT ![k+1] = extraPlus(sub[k+1])], "extra"))

words(l) == [i \in 1..Len(l) |-> <<l[i]>>]

(* variant: each axis lists a repeated token once *)
fontRecordDeduplicated(f) ==
    LET sub == combineExtra(replaceRoman(f.subfamily))
    IN  [filename |-> f.filename,
         family |-> f.family,
         subfamily |-> sub,
         vendor |-> IF f.vendor = "" THEN "generic" ELSE f.vendor,
         opticalSize |-> [i \in 1..Len(f.optical) |-> <<ptPlusTenth(f.optical[i])>>],
         weight |-> l2s(words(unique(sort(SelectIn(sub, weightTable))))),
         width |-> l2s(words(unique(sort(SelectIn(sub, widthTable))))),
         variant |-> l2s(words(unique(sort(SelectIn(sub, variantTable))))),
         features |-> IF \E i \in 1..Len(f.features) : f.features[i] \in numTags
                      THEN f.features
                      ELSE f.features \o <<"fakenum">>]

(* the record addToFonthash stores under the PostScript name *)
fontRecord(f) ==
    LET sub == combineExtra(replaceRoman(f.subfamily))
    IN  [filename |-> f.filename,
         family |-> f.family,
         subfamily |-> sub,
         vendor |-> IF f.vendor = "" THEN "generic" ELSE f.vendor,
         opticalSize |-> [i \in 1..Len(f.optical) |-> <<ptPlusTenth(f.optical[i])>>],
         weight |-> l2s(words(sort(SelectIn(sub, weightTable)))),
         width |-> l2s(words(sort(SelectIn(sub, widthTable)))),
         variant |-> l2s(words(sort(SelectIn(sub, variantTable)))),
         features |-> IF \E i \in 1..Len(f.features) : f.features[i] \in numTags
                      THEN f.features
                      ELSE f.features \o <<"fakenum">>]

(***************************************************************************)
(* classifiedFonts and explodedFonts are nested dicts.  Each is kept as    *)
(* the sequence of its leaves in order of creation; a dict iterates in     *)
(* insertion order, so the nested iteration order is recovered level by    *)
(* level from the order in which keys first appear.                        *)
(***************************************************************************)
RECURSIVE nestedOrder(_, _, _)
nestedOrder(entries, level, depth) ==
    IF level > depth THEN entries
    ELSE LET ks == unique([i \in 1..Len(entries) |-> entries[i].key[level]])
         IN  Concat([i \in 1..Len(ks) |->
                 nestedOrder(SelectSeq(entries, LAMBDA e : e.key[level] = ks[i]),
                             level + 1, depth)])

hasKey(entries, k) == \E i \in 1..Len(entries) : entries[i].key = k

indexOfKey(entries, k) == CHOOSE i \in 1..Len(entries) : entries[i].key = k

(* variant: a name already in its bucket is not appended again *)
classifyFontOnce(cf, fh, name) ==
    LET k == <<fh[name].family, fh[name].weight, fh[name].width, fh[name].variant>>
        item == <<name, fh[name].opticalSize>>
    IN  IF hasKey(cf, k)
        THEN IF item \in Range(cf[indexOfKey(cf, k)].fonts) THEN cf
             ELSE [cf EXCEPT ![indexOfKey(cf, k)].fonts = @ \o <<item>>]
        ELSE cf \o <<[key |-> k, fonts |-> <<item>>]>>

(* classifyFont: append [postScriptName, opticalSize] to the bucket *)
classifyFont(cf, fh, name) ==
    LET k == <<fh[name].family, fh[name].weight, fh[name].width, fh[name].variant>>
        item == <<name, fh[name].opticalSize>>
    IN  IF hasKey(cf, k)
        THEN [cf EXCEPT ![indexOfKey(cf, k)].fonts = @ \o <<item>>]
        ELSE cf \o <<[key |-> k, fonts |-> <<item>>]>>

(***************************************************************************)
(* populateFontDataStructures                                              *)
(***************************************************************************)
(* the (bucket, font) pairs in the order of the five nested loops *)
fontsOf(entry) ==
    [i \in 1..Len(entry.fonts) |->
        [weight |-> entry.key[2], width |-> entry.key[3], variant |-> entry.key[4],
         name |-> entry.fonts[i][1]]]

populateOrder(cf) ==
    LET ordered == nestedOrder(cf, 1, 4)
    IN  Concat([i \in 1..Len(ordered) |-> fontsOf(ordered[i])])

(* variant: the groups of optionList as they are, whatever the font has *)
myOptionListUnfiltered(features) ==
    SelectSeq(cfg.optionList, LAMBDA g : g # <<>>)

(* the groups of optionList cut down to the font's features *)
myOptionList(features) ==
    LET opt(o) == SelectSeq(o, LAMBDA oo : oo = "" \/ oo \in Range(features))
        opts == [i \in 1..Len(cfg.optionList) |-> opt(cfg.optionList[i])]
    IN  SelectSeq(opts, LAMBDA g : g # <<>>)

(* variant: the family test without "and oo not in fakeOptionList" *)
applyOptionFakeFamily(st, oo, weight, width, variant) ==
    LET real == oo \notin cfg.fakeOptionList
        s1 == IF oo \in cfg.globalOptionList /\ real
              THEN [st EXCEPT !.cmdlineoptions = @ \o <<Str(oo)>>] ELSE st
        s2 == IF oo \in cfg.newFontFamilyOptionList
              THEN [s1 EXCEPT !.xfamily = @ \o <<Str(oo)>>] ELSE s1
        s3 == IF oo \in cfg.weightOptionList /\ real
              THEN [s2 EXCEPT !.xweight = l2s(s2l(weight) \o <<Str(oo)>>),
                              !.cmdlineoptions = @ \o <<Str(oo)>>] ELSE s2
        s4 == IF oo \in cfg.widthOptionList /\ real
              THEN [s3 EXCEPT !.xwidth = l2s(s2l(width) \o <<Str(oo)>>),
                              !.cmdlineoptions = @ \o <<Str(oo)>>] ELSE s3
        s5 == IF oo \in cfg.variantOptionList /\ real
              THEN [s4 EXCEPT !.xvariant = l2s(s2l(variant) \o <<Str(oo)>>),
                              !.cmdlineoptions = @ \o <<Str(oo)>>] ELSE s4
    IN  s5

(* one pass of the loop over the tokens of a combination *)
applyOption(st, oo, weight, width, variant) ==
    LET real == oo \notin cfg.fakeOptionList
        s1 == IF oo \in cfg.globalOptionList /\ real
              THEN [st EXCEPT !.cmdlineoptions = @ \o <<Str(oo)>>] ELSE st
        s2 == IF oo \in cfg.newFontFamilyOptionList /\ real
              THEN [s1 EXCEPT !.xfamily = @ \o <<Str(oo)>>] ELSE s1
        s3 == IF oo \in cfg.weightOptionList /\ real
              THEN [s2 EXCEPT !.xweight = l2s(s2l(weight) \o <<Str(oo)>>),
                              !.cmdlineoptions = @ \o <<Str(oo)>>] ELSE s2
        s4 == IF oo \in cfg.widthOptionList /\ real
              THEN [s3 EXCEPT !.xwidth = l2s(s2l(width) \o <<Str(oo)>>),
                              !.cmdlineoptions = @ \o <<Str(oo)>>] ELSE s3
        s5 == IF oo \in cfg.variantOptionList /\ real
              THEN [s4 EXCEPT !.xvariant = l2s(s2l(variant) \o <<Str(oo)>>),
                              !.cmdlineoptions = @ \o <<Str(oo)>>] ELSE s4
    IN  s5

RECURSIVE applyOptions(_, _, _, _, _)
applyOptions(st, o, weight, width, variant) ==
    IF o = <<>> THEN st
    ELSE applyOptions(applyOption(st, Head(o), weight, width, variant),
                      Tail(o), weight, width, variant)

(* s2l(xfamily)[1:] *)
afterFirst(l) == IF l = <<>> THEN <<>> ELSE Tail(l)

(* the "-f%s " flags *)
flags(l) == Concat([i \in 1..Len(l) |-> <<"-f">> \o l[i] \o <<" ">>])

(* variant: the shape is built from the font's variant, not the extended one *)
explodeBaseShape(fh, item, o) ==
    LET name == item.name
        st == applyOptions([xfamily |-> <<fh[name].family>>, xweight |-> item.weight,
                            xwidth |-> item.width, xvariant |-> item.variant,
                            cmdlineoptions |-> <<>>],
                           o, item.weight, item.width, item.variant)
        xfamily == l2s(st.xfamily)
        extra == afterFirst(s2l(xfamily)) \o st.cmdlineoptions
    IN  [name |-> name, o |-> o,
         xfamilylist |-> st.xfamily, xfamily |-> xfamily,
         xweight |-> st.xweight, xwidth |-> st.xwidth, xvariant |-> st.xvariant,
         optionlist |-> st.cmdlineoptions,
         series |-> buildSeries(st.xweight, st.xwidth),
         shape |-> buildShape(item.variant),
         optical |-> l2s(fh[name].opticalSize),
         leaf |-> [filename |-> fh[name].filename,
                   family |-> fh[name].family,
                   vendor |-> fh[name].vendor,
                   fontname |-> l2s(<<encoding, name>> \o extra),
                   cmdlineoptions |-> flags(extra)]]

(* everything one iteration of "for o in breakout(myOptionList)" computes *)
explode(fh, item, o) ==
    LET name == item.name
        st == applyOptions([xfamily |-> <<fh[name].family>>, xweight |-> item.weight,
                            xwidth |-> item.width, xvariant |-> item.variant,
                            cmdlineoptions |-> <<>>],
                           o, item.weight, item.width, item.variant)
        xfamily == l2s(st.xfamily)
        extra == afterFirst(s2l(xfamily)) \o st.cmdlineoptions
    IN  [name |-> name, o |-> o,
         xfamilylist |-> st.xfamily, xfamily |-> xfamily,
         xweight |-> st.xweight, xwidth |-> st.xwidth, xvariant |-> st.xvariant,
         optionlist |-> st.cmdlineoptions,
         series |-> buildSeries(st.xweight, st.xwidth),
         shape |-> buildShape(st.xvariant),
         optical |-> l2s(fh[name].opticalSize),
         leaf |-> [filename |-> fh[name].filename,
                   family |-> fh[name].family,
                   vendor |-> fh[name].vendor,
                   fontname |-> l2s(<<encoding, name>> \o extra),
                   cmdlineoptions |-> flags(extra)]]

(* variant: an existing leaf keeps the file it already names *)
insertLeafKeepFile(ef, k, leaf) ==
    IF hasKey(ef, k)
    THEN [ef EXCEPT ![indexOfKey(ef, k)].leaf =
             [leaf EXCEPT !.filename = ef[indexOfKey(ef, k)].leaf.filename]]
    ELSE ef \o <<[key |-> k, leaf |-> leaf]>>

(* explodedFonts[xfamily][series][shape][optical] gets the five fields *)
insertLeaf(ef, k, leaf) ==
    IF hasKey(ef, k)
    THEN [ef EXCEPT ![indexOfKey(ef, k)].leaf = leaf]
    ELSE ef \o <<[key |-> k, leaf |-> leaf]>>

NoLeaf == [filename |-> "", family |-> <<>>, vendor |-> "", fontname |-> <<>>,
           cmdlineoptions |-> <<>>]

leafAt(ef, k) == IF hasKey(ef, k) THEN ef[indexOfKey(ef, k)].leaf ELSE NoLeaf

NoItem == [weight |-> <<>>, width |-> <<>>, variant |-> <<>>, name |-> <<>>,
           groups |-> <<>>, yields |-> <<>>]

NoLast == [done |-> FALSE, inserted |-> FALSE, item |-> NoItem,
           x |-> explode(<<>> :> [family |-> <<>>, opticalSize |-> <<>>, filename |-> "",
                                  vendor |-> ""], NoItem, <<>>),
           before |-> NoLeaf, existed |-> FALSE]

NoCall == [fn |-> "none", args |-> <<>>, result |-> <<>>]

(***************************************************************************)
(* The program: addToFonthash for every font file, then                    *)
(* populateFontDataStructures, generateFDandSTY and executeCommands.       *)
(***************************************************************************)
Init ==
    /\ cfg \in Configs
    /\ pc = "add"
    /\ nfiles = 0
    /\ fonthash = <<>>
    /\ classifiedFonts = <<>>
    /\ explodedFonts = <<>>
    /\ work = <<>>
    /\ cur = NoItem
    /\ combos = <<>>
    /\ last = NoLast
    /\ call = NoCall
    /\ fontfiles = <<>>
    /\ named = {}
    /\ families = <<>>
    /\ styfiles = <<>>
    /\ written = <<>>
    /\ installcommands = <<>>
    /\ executed = <<>>

AddToFonthash(f) ==
    /\ pc = "add"
    /\ nfiles < MaxFonts
    /\ IF fontRecord(f).subfamily = IndexError
       THEN /\ pc' = "error"
            /\ UNCHANGED <<nfiles, fonthash, classifiedFonts, fontfiles>>
       ELSE LET fh == (f.postScriptName :> fontRecord(f)) @@ fonthash
            IN  /\ fonthash' = fh
                /\ classifiedFonts' = classifyFont(classifiedFonts, fh, f.postScriptName)
                /\ nfiles' = nfiles + 1
                /\ fontfiles' = Append(fontfiles, f.filename)
                /\ pc' = pc
    /\ UNCHANGED <<cfg, explodedFonts, work, cur, combos, last, call, named, emitVars>>

(* variant: the classification is emptied into the work list *)
PopulateStartMoving ==
    /\ pc = "add"
    /\ pc' = "populate"
    /\ work' = populateOrder(classifiedFonts)
    /\ classifiedFonts' = <<>>
    /\ UNCHANGED <<cfg, nfiles, fonthash, explodedFonts, cur, combos, last, call,
                   fontfiles, named, emitVars>>

PopulateStart ==
    /\ pc = "add"
    /\ pc' = "populate"
    /\ work' = populateOrder(classifiedFonts)
    /\ UNCHANGED <<cfg, nfiles, fonthash, classifiedFonts, explodedFonts, cur, combos, last, call,
                   fontfiles, named, emitVars>>

NextFont ==
    /\ pc = "populate"
    /\ combos = <<>>
    /\ work # <<>>
    /\ LET groups == myOptionList(fonthash[Head(work).name].features)
       IN  /\ cur' = [weight |-> Head(work).weight, width |-> Head(work).width,
                      variant |-> Head(work).variant, name |-> Head(work).name,
                      groups |-> groups, yields |-> breakout(groups)]
           /\ combos' = breakout(groups)
    /\ work' = Tail(work)
    /\ UNCHANGED <<cfg, pc, nfiles, fonthash, classifiedFonts, explodedFonts, last, call,
                   fontfiles, named, emitVars>>

ExplodeCombination ==
    /\ pc = "populate"
    /\ combos # <<>>
    /\ LET x == explode(fonthash, cur, Head(combos))
           k == <<x.xfamily, x.series, x.shape, x.optical>>
           failed == x.series = KeyError \/ x.shape = KeyError
       IN  /\ last' = [done |-> TRUE, inserted |-> ~failed, item |-> cur,
                       x |-> x,
                       before |-> leafAt(explodedFonts, k),
                       existed |-> hasKey(explodedFonts, k)]
           /\ IF failed
              THEN /\ pc' = "error"
                   /\ UNCHANGED <<explodedFonts, combos, named>>
              ELSE /\ explodedFonts' = insertLeaf(explodedFonts, k, x.leaf)
                   /\ named' = named \cup {[name |-> x.name, o |-> x.o,
                                             fontname |-> x.leaf.fontname]}
                   /\ combos' = Tail(combos)
                   /\ pc' = pc
    /\ UNCHANGED <<cfg, nfiles, fonthash, classifiedFonts, work, cur, call, fontfiles, emitVars>>

PopulateDone ==
    /\ pc = "populate"
    /\ combos = <<>>
    /\ work = <<>>
    /\ pc' = "generate"
    /\ UNCHANGED <<cfg, nfiles, fonthash, classifiedFonts, explodedFonts, work, cur, combos, last, call,
                   fontfiles, named, emitVars>>

(***************************************************************************)
(* generateFDandSTY                                                        *)
(***************************************************************************)
(* the entries of a nested dict below a prefix of keys *)
under(ef, prefix) == SelectSeq(ef, LAMBDA e : SubSeq(e.key, 1, Len(prefix)) = prefix)

(* list(d[k1]...[kn].keys()) *)
keysUnder(ef, prefix) ==
    unique([i \in 1..Len(under(ef, prefix)) |-> under(ef, prefix)[i].key[Len(prefix) + 1]])

(* float(a) for the sizes addToFonthash writes, in tenths of a point *)
ptValue(a) ==
    CASE a = "6.1" -> 61
      [] a = "8.5" -> 85
      [] a = "13.1" -> 131
      [] OTHER -> 0

ValueError == <<"ValueError">>

RECURSIVE insertByLowerBound(_, _)
insertByLowerBound(op, l) ==
    IF l = <<>> THEN <<op>>
    ELSE IF ptValue(op[1]) < ptValue(Head(l)[1]) THEN <<op>> \o l
    ELSE <<Head(l)>> \o insertByLowerBound(op, Tail(l))

(* opticalkeys.sort(key=lambda a: float(a.split("-")[0])); float("") raises *)
RECURSIVE sortOpticals(_)
sortOpticals(ops) ==
    IF <<>> \in Range(ops) THEN ValueError
    ELSE IF ops = <<>> THEN <<>>
    ELSE insertByLowerBound(ops[Len(ops)], sortOpticals(SubSeq(ops, 1, Len(ops) - 1)))

(* the size range printed for one optical key *)
sizeRange(op, opticalkeys) ==
    IF Len(opticalkeys) > 1
    THEN IF op = opticalkeys[1] THEN <<"-", op[3]>>
         ELSE IF op = opticalkeys[Len(opticalkeys)] THEN <<op[1], "-">>
         ELSE op
    ELSE <<"-">>

(* the otftotfm command line of one leaf *)
otftotfm(leaf) ==
    [prog |-> "otftotfm", flags |-> "--no-updmap -a -e texnansx",
     typeface |-> niceFontName(leaf.family), vendor |-> leaf.vendor,
     filename |-> leaf.filename, cmdlineoptions |-> leaf.cmdlineoptions,
     fontname |-> leaf.fontname]

(* one \DeclareFontShape of real fonts, with the commands it queues *)
realShape(ef, family, se, sh) ==
    LET keys == keysUnder(ef, <<family, se, sh>>)
        opticalkeys == IF Len(keys) > 1 THEN sortOpticals(keys) ELSE keys
    IN  IF opticalkeys = ValueError
        THEN [raised |-> TRUE, decl |-> <<>>, cmds |-> <<>>]
        ELSE [raised |-> FALSE,
              decl |-> [series |-> se, shape |-> sh, sub |-> <<>>,
                        sizes |-> [i \in 1..Len(opticalkeys) |->
                                     [range |-> sizeRange(opticalkeys[i], opticalkeys),
                                      fontname |-> leafAt(ef, <<family, se, sh,
                                                               opticalkeys[i]>>).fontname]]],
              cmds |-> [i \in 1..Len(opticalkeys) |->
                          otftotfm(leafAt(ef, <<family, se, sh, opticalkeys[i]>>))]]

(* the (series, shape) pairs of a family in the order of the two loops *)
seriesShapes(ef, family) ==
    LET ses == keysUnder(ef, <<family>>)
    IN  Concat([i \in 1..Len(ses) |->
            [j \in 1..Len(keysUnder(ef, <<family, ses[i]>>)) |->
                <<ses[i], keysUnder(ef, <<family, ses[i]>>)[j]>>]])

(* a \DeclareFontShape that substitutes another shape of the family *)
subShape(se, sh, byse, bysh) ==
    [series |-> se, shape |-> sh, sub |-> <<byse, bysh>>, sizes |-> <<>>]

sl == <<"s", "l">>

it == <<"i", "t">>

(* sl for a missing it and it for a missing sl, series by series *)
slantedItalicRules(ef, family) ==
    LET ses == keysUnder(ef, <<family>>)
        rules(new, old) ==
            Concat([i \in 1..Len(ses) |->
                IF new \in Range(keysUnder(ef, <<family, ses[i]>>))
                   /\ old \notin Range(keysUnder(ef, <<family, ses[i]>>))
                THEN <<subShape(ses[i], old, ses[i], new)>>
                ELSE <<>>])
    IN  rules(sl, it) \o rules(it, sl)

(* variant: bx/sl is given b/it without looking whether b has sl *)
boldExtendedRulesUnguarded(ef, family) ==
    LET ses == Range(keysUnder(ef, <<family>>))
        shs == keysUnder(ef, <<family, <<"b">> >>)
    IN  IF <<"b">> \in ses /\ <<"b", "x">> \notin ses
        THEN [i \in 1..Len(shs) |-> subShape(<<"b", "x">>, shs[i], <<"b">>, shs[i])]
             \o (IF it \in Range(shs)
                 THEN <<subShape(<<"b", "x">>, sl, <<"b">>, it)>>
                 ELSE <<>>)
        ELSE <<>>

(* b in place of a missing bx *)
boldExtendedRules(ef, family) ==
    LET ses == Range(keysUnder(ef, <<family>>))
        shs == keysUnder(ef, <<family, <<"b">> >>)
    IN  IF <<"b">> \in ses /\ <<"b", "x">> \notin ses
        THEN [i \in 1..Len(shs) |-> subShape(<<"b", "x">>, shs[i], <<"b">>, shs[i])]
             \o (IF it \in Range(shs) /\ sl \notin Range(shs)
                 THEN <<subShape(<<"b", "x">>, sl, <<"b">>, it)>>
                 ELSE <<>>)
        ELSE <<>>

(* sb in place of b and bx when neither is there *)
semiboldRules(ef, family) ==
    LET ses == Range(keysUnder(ef, <<family>>))
        shs == keysUnder(ef, <<family, <<"s", "b">> >>)
        rules(bbx) == [i \in 1..Len(shs) |-> subShape(bbx, shs[i], <<"s", "b">>, shs[i])]
    IN  IF <<"s", "b">> \in ses /\ <<"b">> \notin ses /\ <<"b", "x">> \notin ses
        THEN rules(<<"b">>) \o rules(<<"b", "x">>)
        ELSE <<>>

(* styfiles[fontbase] gets fontoptions appended *)
addStyOptions(sty, fontbase, fontoptions) ==
    IF \E i \in 1..Len(sty) : sty[i].fontbase = fontbase
    THEN LET i == CHOOSE i \in 1..Len(sty) : sty[i].fontbase = fontbase
         IN  [sty EXCEPT ![i].options = @ \o <<fontoptions>>]
    ELSE sty \o <<[fontbase |-> fontbase, options |-> <<fontoptions>>]>>

kpsewhich == [prog |-> "kpsewhich"]

(* variant: a family without Berry code is skipped and the loop goes on *)
fdFamilySkipUnknown(ef, family, sty) ==
    LET parts == s2l(family)
        fontbase == parts[1]
        fontoptions == Tail(parts)
        known == Len(fontbase) = 1 /\ fontbase[1] \in DOMAIN berryname
        fontname == berryname[fontbase[1]] \o codes(fontoptions)
        pairs == seriesShapes(ef, family)
        shapes == [i \in 1..Len(pairs) |-> realShape(ef, family, pairs[i][1], pairs[i][2])]
        raised == \E i \in 1..Len(shapes) : shapes[i].raised
        printed == IF raised
                   THEN SubSeq(shapes, 1, (CHOOSE i \in 1..Len(shapes) :
                                              /\ shapes[i].raised
                                              /\ \A j \in 1..(i-1) : ~shapes[j].raised) - 1)
                   ELSE shapes
        nothing == [status |-> "IndexError", styfiles |-> sty, files |-> <<>>,
                    cmds |-> <<>>, ran |-> <<>>]
    IN  IF parts = <<>> THEN nothing
        ELSE IF ~known
        THEN [nothing EXCEPT !.status = "ok",
                             !.styfiles = addStyOptions(sty, fontbase, fontoptions)]
        ELSE IF codes(fontoptions) = KeyError
        THEN [nothing EXCEPT !.status = "KeyError",
                             !.styfiles = addStyOptions(sty, fontbase, fontoptions)]
        ELSE [status |-> IF raised THEN "ValueError" ELSE "ok",
              styfiles |-> addStyOptions(sty, fontbase, fontoptions),
              files |-> <<[kind |-> "fd", name |-> encodingLower \o fontname,
                           family |-> family, fontname |-> fontname,
                           scaled |-> letterize(berryname[fontbase[1]]),
                           complete |-> ~raised,
                           decls |-> [i \in 1..Len(printed) |-> printed[i].decl]
                                     \o (IF raised THEN <<>>
                                         ELSE slantedItalicRules(ef, family)
                                              \o boldExtendedRules(ef, family)
                                              \o semiboldRules(ef, family))]>>,
              cmds |-> Concat([i \in 1..Len(printed) |-> printed[i].cmds]),
              ran |-> <<kpsewhich>>]

(* one pass of the loop over the families: the .fd file of the family and  *)
(* the commands queued for its fonts, or the way the pass ends the run     *)
fdFamily(ef, family, sty) ==
    LET parts == s2l(family)
        fontbase == parts[1]
        fontoptions == Tail(parts)
        known == Len(fontbase) = 1 /\ fontbase[1] \in DOMAIN berryname
        fontname == berryname[fontbase[1]] \o codes(fontoptions)
        pairs == seriesShapes(ef, family)
        shapes == [i \in 1..Len(pairs) |-> realShape(ef, family, pairs[i][1], pairs[i][2])]
        raised == \E i \in 1..Len(shapes) : shapes[i].raised
        printed == IF raised
                   THEN SubSeq(shapes, 1, (CHOOSE i \in 1..Len(shapes) :
                                              /\ shapes[i].raised
                                              /\ \A j \in 1..(i-1) : ~shapes[j].raised) - 1)
                   ELSE shapes
        nothing == [status |-> "IndexError", styfiles |-> sty, files |-> <<>>,
                    cmds |-> <<>>, ran |-> <<>>]
    IN  IF parts = <<>> THEN nothing
        ELSE IF ~known
        THEN [nothing EXCEPT !.status = "exit",
                             !.styfiles = addStyOptions(sty, fontbase, fontoptions)]
        ELSE IF codes(fontoptions) = KeyError
        THEN [nothing EXCEPT !.status = "KeyError",
                             !.styfiles = addStyOptions(sty, fontbase, fontoptions)]
        ELSE [status |-> IF raised THEN "ValueError" ELSE "ok",
              styfiles |-> addStyOptions(sty, fontbase, fontoptions),
              files |-> <<[kind |-> "fd", name |-> encodingLower \o fontname,
                           family |-> family, fontname |-> fontname,
                           scaled |-> letterize(berryname[fontbase[1]]),
                           complete |-> ~raised,
                           decls |-> [i \in 1..Len(printed) |-> printed[i].decl]
                                     \o (IF raised THEN <<>>
                                         ELSE slantedItalicRules(ef, family)
                                              \o boldExtendedRules(ef, family)
                                              \o semiboldRules(ef, family))]>>,
              cmds |-> Concat([i \in 1..Len(printed) |-> printed[i].cmds]),
              ran |-> <<kpsewhich>>]

(* the .sty file of one typeface *)
styFile(entry) ==
    LET has(t) == \E i \in 1..Len(entry.options) : <<t>> \in Range(entry.options[i])
        berry == berryname[entry.fontbase[1]]
    IN  [kind |-> "sty", name |-> niceFontName(entry.fontbase), fontbase |-> entry.fontbase,
         key |-> letterize(berry), options |-> entry.options,
         fnmark |-> has("sups"), textfrac |-> has("sups") /\ has("sinf"),
         oldstyle |-> has("onum"), lining |-> has("lnum"),
         styledefined |-> has("onum") \/ ~has("lnum"),
         style |-> IF has("onum") THEN cfg.optionMappings["onum"]
                   ELSE IF has("lnum") THEN <<>>
                   ELSE cfg.optionMappings["fakenum"],
         rmdefault |-> berry]

GenerateStart ==
    /\ pc = "generate"
    /\ pc' = "fd"
    /\ families' = keysUnder(explodedFonts, <<>>)
    /\ styfiles' = <<>>
    /\ UNCHANGED <<cfg, nfiles, fonthash, classifiedFonts, explodedFonts, work, cur, combos, last, call,
                   fontfiles, named, written, installcommands, executed>>

GenerateFamily ==
    /\ pc = "fd"
    /\ families # <<>>
    /\ LET r == fdFamily(explodedFonts, Head(families), styfiles)
       IN  /\ styfiles' = r.styfiles
           /\ written' = written \o r.files
           /\ installcommands' = installcommands \o r.cmds
           /\ executed' = executed \o r.ran
           /\ IF r.status = "ok"
              THEN pc' = pc /\ families' = Tail(families)
              ELSE pc' = (IF r.status = "exit" THEN "exit" ELSE "error") /\ families' = families
    /\ UNCHANGED <<cfg, nfiles, fonthash, classifiedFonts, explodedFonts, work, cur, combos, last, call,
                   fontfiles, named>>

GenerateSty ==
    /\ pc = "fd"
    /\ families = <<>>
    /\ written' = written \o [i \in 1..Len(styfiles) |-> styFile(styfiles[i])]
    /\ executed' = executed \o [i \in 1..Len(styfiles) |-> kpsewhich]
    /\ pc' = "execute"
    /\ UNCHANGED <<cfg, nfiles, fonthash, classifiedFonts, explodedFonts, work, cur, combos, last, call,
                   fontfiles, named, families, styfiles, installcommands>>

(***************************************************************************)
(* executeCommands                                                         *)
(***************************************************************************)
updmap == [prog |-> "updmap"]

texhash == [prog |-> "texhash"]

ExecuteCommands ==
    /\ pc = "execute"
    /\ IF installcommands = <<>>
       THEN pc' = "exit" /\ executed' = executed
       ELSE pc' = "done" /\ executed' = executed \o installcommands \o <<updmap, texhash, updmap>>
    /\ UNCHANGED <<cfg, nfiles, fonthash, classifiedFonts, explodedFonts, work, cur, combos, last, call,
                   fontfiles, named, families, styfiles, written, installcommands>>

Next ==
    \/ \E f \in FontFiles : AddToFonthash(f)
    \/ PopulateStart
    \/ NextFont
    \/ ExplodeCombination
    \/ PopulateDone
    \/ GenerateStart
    \/ GenerateFamily
    \/ GenerateSty
    \/ ExecuteCommands

Spec == Init /\ [][Next]_vars

(***************************************************************************)
(* The pure functions on their own: one call per run, inputs drawn from    *)
(* bounded sets, under the shipped tables.                                 *)
(***************************************************************************)
Choices == {"a", "b", "c", ""}

(* a group lists each of its choices once, as the groups of optionList do *)
Groups == {g \in SeqsUpTo(Choices, MaxChoices) : \A i, j \in 1..Len(g) : g[i] = g[j] => i = j}

SeriesWords == {"regular", "bold", "semibold", "extended", "cond"}

InitFn ==
    /\ cfg = Shipped
    /\ pc = "fn"
    /\ nfiles = 0
    /\ fonthash = <<>>
    /\ classifiedFonts = <<>>
    /\ explodedFonts = <<>>
    /\ work = <<>>
    /\ cur = NoItem
    /\ combos = <<>>
    /\ last = NoLast
    /\ call = NoCall
    /\ fontfiles = <<>>
    /\ named = {}
    /\ families = <<>>
    /\ styfiles = <<>>
    /\ written = <<>>
    /\ installcommands = <<>>
    /\ executed = <<>>

CallBreakout ==
    /\ pc = "fn"
    /\ call = NoCall
    /\ \E n \in 0..MaxGroups : \E lyst \in [1..n -> Groups] :
          call' = [fn |-> "breakout", args |-> <<lyst>>, result |-> breakout(lyst)]
    /\ UNCHANGED <<cfg, pc, nfiles, fonthash, classifiedFonts, explodedFonts, work, cur, combos, last,
                   fontfiles, named, emitVars>>

CallBuildSeries ==
    /\ pc = "fn"
    /\ call = NoCall
    /\ \E wl \in SeqsUpTo(SeriesWords, MaxTokens), wdl \in SeqsUpTo(SeriesWords, MaxTokens) :
          call' = [fn |-> "buildSeries", args |-> <<wl, wdl>>,
                   result |-> buildSeries(l2s(words(wl)), l2s(words(wdl)))]
    /\ UNCHANGED <<cfg, pc, nfiles, fonthash, classifiedFonts, explodedFonts, work, cur, combos, last,
                   fontfiles, named, emitVars>>

(* the words of a Subfamily line, lower-cased: axis words, words of no axis, *)
(* and the two words addToFonthash rewrites                                *)
SubfamilyWords == {"regular", "bold", "light", "cond", "italic", "display", "roman", "extra"}

CallAddToFonthash ==
    /\ pc = "fn"
    /\ call = NoCall
    /\ \E sub \in SeqsUpTo(SubfamilyWords, MaxTokens) :
          LET rec == fontRecord(FontFile("Font.otf", <<"Font">>, <<"Font">>, sub, "", <<>>, <<>>))
          IN  call' = [fn |-> "addToFonthash", args |-> <<sub>>,
                       result |-> [raised |-> rec.subfamily = IndexError, record |-> rec]]
    /\ UNCHANGED <<cfg, pc, nfiles, fonthash, classifiedFonts, explodedFonts, work, cur, combos, last,
                   fontfiles, named, emitVars>>

(* the series and shapes the substitution rules look for, and the medium   *)
(* series and normal shape beside them                                     *)
RuleSeries == {<<"m">>, <<"b">>, <<"b", "x">>, <<"s", "b">>}

RuleShapes == {<<"n">>, it, sl}

(* explodedFonts[family] with one font without optical size per pair *)
familyIndex(family, pairs) ==
    [i \in 1..Len(pairs) |->
        [key |-> <<family, pairs[i][1], pairs[i][2], <<>> >>, leaf |-> NoLeaf]]

CallGenerateFD ==
    /\ pc = "fn"
    /\ call = NoCall
    /\ \E n \in 1..MaxPairs : \E pairs \in [1..n -> RuleSeries \X RuleShapes] :
          /\ \A i, j \in 1..n : pairs[i] = pairs[j] => i = j
          /\ LET r == fdFamily(familyIndex(<<"Minion Pro">>, pairs), <<"Minion Pro">>, <<>>)
             IN  call' = [fn |-> "generateFDandSTY", args |-> <<pairs>>,
                          result |-> [status |-> r.status, files |-> r.files]]
    /\ UNCHANGED <<cfg, pc, nfiles, fonthash, classifiedFonts, explodedFonts, work, cur, combos, last,
                   fontfiles, named, emitVars>>

NextFn == CallBreakout \/ CallBuildSeries \/ CallAddToFonthash \/ CallGenerateFD

SpecFn == InitFn /\ [][NextFn]_vars

(***************************************************************************)
(* Properties                                                              *)
(***************************************************************************)
RECURSIVE sizesFrom(_, _)
sizesFrom(lyst, g) == IF g > Len(lyst) THEN 1 ELSE Len(lyst[g]) * sizesFrom(lyst, g + 1)

(* the k-th element of G1 x ... x Gn, the first group varying slowest *)
kthPick(lyst, k) ==
    [g \in 1..Len(lyst) |->
        lyst[g][(((k - 1) \div sizesFrom(lyst, g + 1)) % Len(lyst[g])) + 1]]

nonEmptyOf(l) == SelectSeq(l, LAMBDA c : c # "")

(* C1: breakout yields one combination per element of the cross-product   *)
(* of the groups, the first group varying slowest, each being the picked   *)
(* choices in group order with the empty choices removed.                  *)
C1_BreakoutCrossProduct ==
    call.fn = "breakout" =>
        LET lyst == call.args[1]
        IN  /\ Len(call.result) = sizesFrom(lyst, 1)
            /\ \A k \in 1..Len(call.result) :
                  call.result[k] = nonEmptyOf(kthPick(lyst, k))

C1_Witness ==
    /\ call.fn = "breakout"
    /\ call.args[1] = << <<"a", "b">>, <<"c", "">> >>
    /\ call.result = << <<"a", "c">>, <<"a">>, <<"b", "c">>, <<"b">> >>

onlyEmptyChoices(groups) ==
    \A g \in 1..Len(groups) : Range(groups[g]) = {""}

lastKey == <<last.x.xfamily, last.x.series, last.x.shape, last.x.optical>>

(* C2 as claimed: every combination breakout yields for a font is          *)
(* non-empty, and a font whose groups hold only the empty choice gets no   *)
(* combination and no leaf.                                                *)
C2_EveryCombinationNonEmpty ==
    /\ \A i \in 1..Len(cur.yields) : cur.yields[i] # <<>>
    /\ last.done /\ onlyEmptyChoices(last.item.groups) => ~last.inserted

(* C2 amended: every combination breakout yields is free of empty choices  *)
(* but may itself be empty; when every group holds only the empty choice   *)
(* breakout yields the empty combination, and populateFontDataStructures   *)
(* processes it and inserts a leaf for the font.                           *)
C2_NoEmptyChoiceButEmptyCombination ==
    /\ \A i \in 1..Len(cur.yields) : "" \notin Range(cur.yields[i])
    /\ pc = "populate" /\ cur # NoItem /\ onlyEmptyChoices(cur.groups)
          => cur.yields = [g \in 1..sizesFrom(cur.groups, 1) |-> <<>>]
             /\ Len(cur.yields) >= 1
    /\ last.done /\ onlyEmptyChoices(last.item.groups)
          => /\ last.x.o = <<>>
             /\ last.inserted
             /\ hasKey(explodedFonts, lastKey)

C2_Witness ==
    /\ last.inserted
    /\ onlyEmptyChoices(last.item.groups)
    /\ last.x.o = <<>>
    /\ \E i \in 1..Len(explodedFonts) :
          explodedFonts[i].leaf.fontname = l2s(<<encoding, last.x.name>>)

(* first-seen-order deduplication, by position *)
firstSeen(l) ==
    LET keep == {i \in 1..Len(l) : \A j \in 1..(i - 1) : l[j] # l[i]}
        pos(n) == CHOOSE i \in keep : Cardinality({j \in keep : j < i}) = n - 1
    IN  [n \in 1..Cardinality(keep) |-> l[pos(n)]]

(* C3: buildSeries returns "m" when the first-seen-order deduplicated list *)
(* of weight tokens followed by width tokens is empty or exactly           *)
(* ["regular"], and otherwise the concatenation in that order of the       *)
(* tokens' codes; bold then extended gives "bx".                           *)
C3_BuildSeries ==
    call.fn = "buildSeries" =>
        LET toks == firstSeen(call.args[1] \o call.args[2])
        IN  call.result =
               IF toks = <<>> \/ toks = <<"regular">> THEN <<"m">>
               ELSE Concat([i \in 1..Len(toks) |-> optionMappings[toks[i]]])

C3_Witness ==
    /\ call.fn = "buildSeries"
    /\ call.args = << <<"bold">>, <<"extended">> >>
    /\ call.result = <<"b", "x">>

italicClass(tok) == HasMapping(tok) /\ cfg.optionMappings[tok[1]] = <<"i", "t">>

(* C4: when the extended variant holds an italic-class token (italic, it)  *)
(* and smcp, the shape code is "si" followed by the codes of the remaining *)
(* tokens, with no separate "it" or "sc".                                  *)
C4_ItalicSmallCapsIsSi ==
    LET toks == firstSeen(s2l(last.x.xvariant))
        others == SelectSeq(toks, LAMBDA t : ~italicClass(t) /\ t # <<"smcp">>)
    IN  /\ last.done
        /\ last.x.shape # KeyError
        /\ \E i \in 1..Len(toks) : italicClass(toks[i])
        /\ <<"smcp">> \in Range(toks)
        => last.x.shape = <<"s", "i">> \o codes(others)

realTokens(o, cat) == SelectSeq(o, LAMBDA t : t \in cat /\ t \notin cfg.fakeOptionList)

(* C5 as claimed: a font whose variant key is exactly "regular" only gets  *)
(* leaves of shape "n".                                                    *)
C5_RegularVariantAlwaysN ==
    last.inserted /\ last.item.variant = <<"regular">> => last.x.shape = <<"n">>

(* C5 amended: a font whose variant key is exactly "regular" gets shape    *)
(* "n" for every combination that holds no variant-modifying token,        *)
(* whatever its weight and width keys are.                                 *)
C5_RegularVariantNWithoutVariantOption ==
    /\ last.done
    /\ last.item.variant = <<"regular">>
    /\ realTokens(last.x.o, cfg.variantOptionList) = <<>>
    => /\ last.inserted
       /\ last.x.shape = <<"n">>
       /\ lastKey[3] = <<"n">>
       /\ hasKey(explodedFonts, lastKey)

C5_Witness ==
    /\ last.inserted
    /\ last.item.variant = <<"regular">>
    /\ last.item.weight # <<"regular">>
    /\ last.x.shape = <<"n">>

(* C6: a fakeOptionList token in a combination is in neither the           *)
(* external-name option list nor the family tokens, leaves the extended    *)
(* family, weight, width and variant, the codes and the leaf what they are *)
(* for the combination without it, and the combination is still processed  *)
(* and its leaf inserted.                                                  *)
C6_FakeTokenHasNoEffect ==
    LET o == last.x.o
        fakes == {t \in Range(o) : t \in cfg.fakeOptionList}
        plain == explode(fonthash, last.item, SelectSeq(o, LAMBDA t : t \notin fakes))
    IN  last.done /\ fakes # {} =>
          /\ \A t \in fakes :
                /\ <<t>> \notin Range(last.x.optionlist)
                /\ <<t>> \notin Range(Tail(last.x.xfamilylist))
                /\ (<<t>> \notin Range(s2l(fonthash[last.x.name].family))
                      /\ <<t>> \notin Range(s2l(last.x.name))
                    => <<t>> \notin Range(s2l(last.x.leaf.fontname)))
          /\ last.x.xfamily = plain.xfamily
          /\ last.x.xweight = plain.xweight
          /\ last.x.xwidth = plain.xwidth
          /\ last.x.xvariant = plain.xvariant
          /\ last.x.series = plain.series
          /\ last.x.shape = plain.shape
          /\ last.x.leaf = plain.leaf
          /\ (last.x.series # KeyError /\ last.x.shape # KeyError
              => last.inserted /\ leafAt(explodedFonts, lastKey) = last.x.leaf)

C6_Witness ==
    /\ last.inserted
    /\ "fakenum" \in Range(last.x.o)
    /\ hasKey(explodedFonts, lastKey)

(* C7: the fontname of the leaf is the separator-join of the encoding, the *)
(* font's identifier, the non-synthetic family-forming tokens of the       *)
(* combination and then its non-synthetic global/weight/width/variant      *)
(* tokens, and nothing else, for every family name.                        *)
C7_FontnameIsJoinOfTokens ==
    last.inserted =>
        leafAt(explodedFonts, lastKey).fontname =
            l2s(<<encoding, last.x.name>>
                \o words(realTokens(last.x.o, cfg.newFontFamilyOptionList))
                \o words(realTokens(last.x.o, cfg.globalOptionList \cup cfg.weightOptionList
                                               \cup cfg.widthOptionList
                                               \cup cfg.variantOptionList)))

(* C8: every non-synthetic token of the combination that modifies an axis  *)
(* is a member of that axis's extended identifier and of the               *)
(* external-name option list.                                              *)
C8_AxisTokensAllKept ==
    last.inserted =>
        \A t \in Range(last.x.o) :
            t \notin cfg.fakeOptionList =>
              /\ t \in cfg.weightOptionList =>
                    <<t>> \in Range(s2l(last.x.xweight)) /\ <<t>> \in Range(last.x.optionlist)
              /\ t \in cfg.widthOptionList =>
                    <<t>> \in Range(s2l(last.x.xwidth)) /\ <<t>> \in Range(last.x.optionlist)
              /\ t \in cfg.variantOptionList =>
                    <<t>> \in Range(s2l(last.x.xvariant)) /\ <<t>> \in Range(last.x.optionlist)

(* C9 as claimed: a combination holding a token with no optionMappings     *)
(* entry halts the run before a leaf is inserted for it.                   *)
C9_AnyUnmappedTokenHalts ==
    last.done /\ (\E t \in Range(last.x.o) : t \notin DOMAIN cfg.optionMappings)
        => pc = "error" /\ ~last.inserted

(* the tokens whose codes a series or shape is made of *)
codedTokens(toks, pair) ==
    IF toks = <<>> \/ toks = << <<"regular">> >> THEN {}
    ELSE IF pair \subseteq Range(toks) THEN Range(toks) \ pair
    ELSE Range(toks)

(* C9 amended: when the extended weight, width or variant of a combination *)
(* holds a token whose code is needed for the series or shape and that has *)
(* no optionMappings entry, the run halts in that combination before a     *)
(* leaf is inserted for it; unmapped global and family-forming tokens do   *)
(* not halt the Namer.                                                     *)
C9_UnmappedAxisTokenHalts ==
    LET seriestoks == firstSeen(s2l(last.x.xweight) \o s2l(last.x.xwidth))
        shapetoks == firstSeen(s2l(last.x.xvariant))
        needed == codedTokens(seriestoks, {<<"regular">>, <<"no such token">>})
                  \cup codedTokens(shapetoks, {<<"italic">>, <<"smcp">>})
        missing == \E t \in needed : ~HasMapping(t)
    IN  last.done =>
          /\ missing => /\ pc = "error"
                        /\ ~last.inserted
                        /\ hasKey(explodedFonts, lastKey) = last.existed
                        /\ leafAt(explodedFonts, lastKey) = last.before
          /\ ~missing => last.inserted

C9_Witness ==
    /\ pc = "error"
    /\ last.done
    /\ ~last.inserted
    /\ <<"salt">> \in Range(s2l(last.x.xvariant))
    /\ "salt" \notin DOMAIN cfg.optionMappings

(* C10: explodedFonts holds one leaf per (family, series, shape, optical)  *)
(* key, and after an insertion the leaf's filename, family, vendor,        *)
(* fontname and cmdlineoptions are all those of the font just processed,   *)
(* also when another font's leaf was there before.                         *)
C10_LastWriteWins ==
    /\ \A i, j \in 1..Len(explodedFonts) :
          explodedFonts[i].key = explodedFonts[j].key => i = j
    /\ last.inserted =>
          LET leaf == leafAt(explodedFonts, lastKey)
              font == fonthash[last.x.name]
          IN  /\ hasKey(explodedFonts, lastKey)
              /\ leaf.filename = font.filename
              /\ leaf.family = font.family
              /\ leaf.vendor = font.vendor
              /\ leaf.fontname = last.x.leaf.fontname
              /\ leaf.cmdlineoptions = last.x.leaf.cmdlineoptions
              /\ SubSeq(leaf.fontname, 1, 2 + Len(last.x.name)) = l2s(<<encoding, last.x.name>>)

C10_Witness ==
    /\ last.inserted
    /\ last.existed
    /\ last.before.filename # fonthash[last.x.name].filename
    /\ last.before.vendor # fonthash[last.x.name].vendor
    /\ last.before.cmdlineoptions = last.x.leaf.cmdlineoptions
    /\ leafAt(explodedFonts, lastKey).filename = fonthash[last.x.name].filename

(* the explodedFonts key a combination is stored under *)
bucketOf(x) == <<x.xfamily, x.series, x.shape, x.optical>>

(* C11: under the shipped option grammar and category lists, any two       *)
(* combinations of one font that land in the same (family, series, shape,  *)
(* optical) bucket give the same fontname and cmdlineoptions, so a leaf    *)
(* overwritten by the font that wrote it is rewritten unchanged.           *)
C11_SameBucketSameRecord ==
    cfg = Shipped =>
      /\ cur # NoItem =>
            \A i, j \in 1..Len(cur.yields) :
                LET xi == explode(fonthash, cur, cur.yields[i])
                    xj == explode(fonthash, cur, cur.yields[j])
                IN  bucketOf(xi) = bucketOf(xj) =>
                      /\ xi.leaf.fontname = xj.leaf.fontname
                      /\ xi.leaf.cmdlineoptions = xj.leaf.cmdlineoptions
      /\ (last.inserted /\ last.existed /\ last.before.filename = last.x.leaf.filename)
            => last.before = last.x.leaf

C11_Witness ==
    /\ cfg = Shipped
    /\ last.inserted
    /\ last.existed
    /\ last.before.filename = last.x.leaf.filename
    /\ Len(last.item.yields) > 1
    /\ leafAt(explodedFonts, lastKey) = last.before

(* the number of times a name is listed in the buckets of classifiedFonts *)
listings(name) ==
    Cardinality({p \in UNION {{<<i, j>> : j \in 1..Len(classifiedFonts[i].fonts)} :
                                i \in 1..Len(classifiedFonts)} :
                    classifiedFonts[p[1]].fonts[p[2]][1] = name})

(* the number of font files added so far that carry the PostScript name *)
additions(name) ==
    Cardinality({i \in 1..Len(fontfiles) :
                    \E f \in FontFiles : f.filename = fontfiles[i] /\ f.postScriptName = name})

(* C12 as claimed: classifying a record again changes nothing, so every    *)
(* record's name is listed exactly once in classifiedFonts.                *)
C12_ClassifiedExactlyOnce ==
    \A name \in DOMAIN fonthash : listings(name) = 1

(* C12 amended: every classification of a record appends one more          *)
(* (name, opticalSize) pair to the bucket of the record's family, weight,  *)
(* width and variant, so a name is listed as many times as its record was  *)
(* added, always in that one bucket.                                       *)
C12_ClassifiedOncePerAddition ==
    /\ \A f \in FontFiles : listings(f.postScriptName) = additions(f.postScriptName)
    /\ \A name \in DOMAIN fonthash :
          \A i \in 1..Len(classifiedFonts) : \A j \in 1..Len(classifiedFonts[i].fonts) :
              classifiedFonts[i].fonts[j][1] = name =>
                /\ classifiedFonts[i].key = <<fonthash[name].family, fonthash[name].weight,
                                              fonthash[name].width, fonthash[name].variant>>
                /\ classifiedFonts[i].fonts[j][2] = fonthash[name].opticalSize

C12_Witness ==
    \E name \in DOMAIN fonthash :
        /\ additions(name) = 2
        /\ listings(name) = 2
        /\ Len(classifiedFonts) = 1

(* the number of times w is listed in l *)
count(l, w) == Cardinality({i \in 1..Len(l) : l[i] = w})

(* field lists the tokens of sub that are in table T, each as often as sub *)
(* has it, in ascending order                                              *)
sortedSelection(field, sub, T) ==
    LET l == s2l(field)
    IN  /\ Len(l) = Len(SelectIn(sub, T))
        /\ \A w \in T : count(l, <<w>>) = count(sub, w)
        /\ \A i, j \in 1..Len(l) : i < j => rank(l[i][1]) <= rank(l[j][1])

(* field lists the tokens of sub that are in table T, each once, in        *)
(* ascending order, and is "regular" when there is none                    *)
sortedSetOrRegular(field, sub, T) ==
    LET l == s2l(field)
    IN  IF SelectIn(sub, T) = <<>> THEN field = <<"regular">>
        ELSE /\ \A w \in T : count(l, <<w>>) = (IF w \in Range(sub) THEN 1 ELSE 0)
             /\ Len(l) = Cardinality(Range(sub) \cap T)
             /\ \A i, j \in 1..Len(l) : i < j => rank(l[i][1]) < rank(l[j][1])

(* C13 as claimed: weight, width and variant are each the sorted,          *)
(* deduplicated, separator-joined subfamily tokens of the axis's table,    *)
(* and "regular" when no subfamily token is in the table.                  *)
C13_AxisSortedDeduplicatedOrRegular ==
    (call.fn = "addToFonthash" /\ ~call.result.raised) =>
        LET rec == call.result.record
        IN  /\ sortedSetOrRegular(rec.weight, rec.subfamily, weightTable)
            /\ sortedSetOrRegular(rec.width, rec.subfamily, widthTable)
            /\ sortedSetOrRegular(rec.variant, rec.subfamily, variantTable)

(* C13 amended: weight, width and variant are each the sorted,             *)
(* separator-joined subfamily tokens (after roman -> regular and the       *)
(* merging of "extra") of the axis's table, a repeated token as often as   *)
(* it is repeated, and the empty string when no token is in the table.     *)
C13_AxisSortedWithRepeatsOrEmpty ==
    (call.fn = "addToFonthash" /\ ~call.result.raised) =>
        LET rec == call.result.record
        IN  /\ sortedSelection(rec.weight, rec.subfamily, weightTable)
            /\ sortedSelection(rec.width, rec.subfamily, widthTable)
            /\ sortedSelection(rec.variant, rec.subfamily, variantTable)
            /\ SelectIn(rec.subfamily, weightTable) = <<>> => rec.weight = <<>>
            /\ SelectIn(rec.subfamily, widthTable) = <<>> => rec.width = <<>>
            /\ SelectIn(rec.subfamily, variantTable) = <<>> => rec.variant = <<>>

C13_Witness ==
    /\ call.fn = "addToFonthash"
    /\ ~call.result.raised
    /\ call.args = << <<"bold", "bold">> >>
    /\ call.result.record.weight = <<"bold", "-", "bold">>
    /\ call.result.record.variant = <<>>

(* the non-empty tokens of the option grammar *)
grammarTokens == UNION {Range(cfg.optionList[g]) : g \in 1..Len(cfg.optionList)} \ {""}

(* the category lists that hold token t, by name *)
categoriesOf(t, names) ==
    {n \in names :
        \/ n = "global" /\ t \in cfg.globalOptionList
        \/ n = "family" /\ t \in cfg.newFontFamilyOptionList
        \/ n = "weight" /\ t \in cfg.weightOptionList
        \/ n = "width" /\ t \in cfg.widthOptionList
        \/ n = "variant" /\ t \in cfg.variantOptionList
        \/ n = "fake" /\ t \in cfg.fakeOptionList}

(* C14 as claimed: every non-empty token of optionList is in exactly one   *)
(* of the six category lists.                                              *)
C14_SixCategoriesPartition ==
    cfg = Shipped =>
        \A t \in grammarTokens :
            Cardinality(categoriesOf(t, {"global", "family", "weight", "width",
                                         "variant", "fake"})) = 1

(* C14 amended: every non-empty token of optionList is in exactly one of   *)
(* the five lists global, family-forming, weight, width and variant;       *)
(* fakeOptionList is not a sixth class beside them but marks tokens that   *)
(* are listed as family-forming too (fakenum is in both lists).            *)
C14_FiveCategoriesPartitionFakeOverlaps ==
    cfg = Shipped =>
        /\ \A t \in grammarTokens :
              Cardinality(categoriesOf(t, {"global", "family", "weight", "width",
                                           "variant"})) = 1
        /\ cfg.fakeOptionList # {}
        /\ cfg.fakeOptionList \subseteq cfg.newFontFamilyOptionList \cap grammarTokens

C14_Witness ==
    /\ cfg = Shipped
    /\ last.inserted
    /\ \E t \in Range(last.x.o) : categoriesOf(t, {"family", "fake"}) = {"family", "fake"}
    /\ \E t \in Range(last.x.o) : categoriesOf(t, {"global", "fake"}) = {"global"}

(* C15: kern, the single choice of the first group of optionList, is in    *)
(* every combination processed for every font, whatever its features, and  *)
(* so in the option list of every leaf's fontname.                         *)
C15_KernInEveryCombination ==
    cfg = Shipped =>
        /\ \A i \in 1..Len(cur.yields) : "kern" \in Range(cur.yields[i])
        /\ last.inserted =>
              /\ "kern" \in Range(last.x.o)
              /\ <<"kern">> \in Range(last.x.optionlist)
              /\ <<"kern">> \in Range(s2l(leafAt(explodedFonts, lastKey).fontname))

(* a Minion Pro record of regular or empty weight, width and variant,      *)
(* under the grammar [[kern],[liga],[lnum,onum],[smcp,""]]                 *)
minionRegularUnderTwoNumerals ==
    /\ cfg = UserTwoNumerals
    /\ cur # NoItem
    /\ fonthash[cur.name].family = <<"Minion Pro">>
    /\ cur.weight \in {<<>>, <<"regular">>}
    /\ cur.width \in {<<>>, <<"regular">>}
    /\ cur.variant \in {<<>>, <<"regular">>}

(* the combinations are kern-liga-onum-smcp and kern-liga-onum, of series  *)
(* m and shapes sc and n                                                   *)
twoOldStyleCombinations ==
    /\ cur.yields = << <<"kern", "liga", "onum", "smcp">>, <<"kern", "liga", "onum">> >>
    /\ \A i \in 1..Len(cur.yields) :
          LET x == explode(fonthash, cur, cur.yields[i])
          IN  /\ x.series = <<"m">>
              /\ x.shape = (IF "smcp" \in Range(cur.yields[i]) THEN <<"s", "c">> ELSE <<"n">>)
              /\ "fakenum" \notin Range(cur.yields[i])

(* C16 as claimed: such a record with onum among its features is exploded  *)
(* into exactly the combinations kern-liga-onum and kern-liga-onum-smcp,   *)
(* both of series m, of shapes n and sc.                                   *)
C16_MinionWithOnum ==
    (minionRegularUnderTwoNumerals /\ "onum" \in Range(fonthash[cur.name].features))
        => twoOldStyleCombinations

(* C16 amended: such a record whose features hold kern, liga, onum and     *)
(* smcp but not lnum is exploded into exactly the combinations             *)
(* kern-liga-onum-smcp and kern-liga-onum, in that order, both of series   *)
(* m, of shapes sc and n.                                                  *)
C16_MinionWithKernLigaOnumSmcp ==
    (/\ minionRegularUnderTwoNumerals
     /\ {"kern", "liga", "onum", "smcp"} \subseteq Range(fonthash[cur.name].features)
     /\ "lnum" \notin Range(fonthash[cur.name].features))
        => twoOldStyleCombinations

C16_Witness ==
    /\ minionRegularUnderTwoNumerals
    /\ {"kern", "liga", "onum", "smcp"} \subseteq Range(fonthash[cur.name].features)
    /\ "lnum" \notin Range(fonthash[cur.name].features)
    /\ last.inserted
    /\ last.item = cur
    /\ last.x.o = <<"kern", "liga", "onum">>
    /\ last.x.shape = <<"n">>
    /\ combos = <<>>

(* the family keys of explodedFonts whose base family has no Berry code *)
unknownFamilies ==
    {family \in Range(keysUnder(explodedFonts, <<>>)) :
        /\ s2l(family) # <<>>
        /\ ~(Len(s2l(family)[1]) = 1 /\ s2l(family)[1][1] \in DOMAIN berryname)}

(* the conversion and map-update commands *)
installPrograms == {"otftotfm", "updmap", "texhash"}

(* C17: when explodedFonts holds a family whose base family has no entry   *)
(* in berryname, the run ends in generateFDandSTY: the loop over the       *)
(* families never gets past that family, executeCommands is never          *)
(* entered, and no otftotfm, updmap or texhash is run, however many        *)
(* families were written and however many commands were queued before.     *)
C17_UnknownFamilyNothingExecuted ==
    unknownFamilies # {} =>
        /\ pc \notin {"execute", "done"}
        /\ \A i \in 1..Len(executed) : executed[i].prog \notin installPrograms
        /\ pc = "fd" => Range(families) \cap unknownFamilies # {}

C17_Witness ==
    /\ unknownFamilies # {}
    /\ pc = "exit"
    /\ Len(families) = 1
    /\ Head(families) \in unknownFamilies
    /\ Len(written) > 0
    /\ Len(installcommands) > 1
    /\ executed # <<>>
    /\ \A i \in 1..Len(executed) : executed[i].prog \notin installPrograms

(* C18: when the fonts added have pairwise distinct PostScript names, no   *)
(* two distinct (font, combination) pairs processed by                     *)
(* populateFontDataStructures get the same fontname (shipped tables).      *)
C18_FontnamesCollisionFree ==
    (cfg = Shipped /\ \A f \in FontFiles : additions(f.postScriptName) <= 1) =>
        \A p, q \in named :
            (p.name # q.name \/ p.o # q.o) => p.fontname # q.fontname

(* C19: fonthash and classifiedFonts change only while the fonts are being *)
(* added, before anything is in explodedFonts; from the start of           *)
(* populateFontDataStructures to the end of the run no step changes them.  *)
C19_StoresWrittenOnlyBeforePopulate ==
    [][(fonthash' # fonthash \/ classifiedFonts' # classifiedFonts)
          => (pc = "add" /\ pc' = "add" /\ explodedFonts = <<>> /\ explodedFonts' = <<>>)]_vars

C19_Witness ==
    /\ pc = "done"
    /\ Len(classifiedFonts) > 1
    /\ Len(explodedFonts) > 1
    /\ \A i \in 1..Len(explodedFonts) :
          \E name \in DOMAIN fonthash : explodedFonts[i].leaf.filename = fonthash[name].filename

(* C20: under the shipped tables no optionMappings lookup of buildSeries   *)
(* or buildShape fails: every word addToFonthash can put into weight,      *)
(* width or variant and every option the shipped lists add to them has an  *)
(* entry, so every combination of every font gets its series and shape     *)
(* and its leaf.                                                           *)
C20_NoMissingMappingUnderShippedTables ==
    cfg = Shipped =>
        /\ (weightTable \cup widthTable \cup variantTable \cup cfg.weightOptionList
             \cup cfg.widthOptionList \cup cfg.variantOptionList)
               \subseteq DOMAIN cfg.optionMappings
        /\ \A i \in 1..Len(cur.yields) :
              LET x == explode(fonthash, cur, cur.yields[i])
              IN  x.series # KeyError /\ x.shape # KeyError
        /\ last.done => last.inserted /\ last.x.series # KeyError /\ last.x.shape # KeyError
        /\ pc = "error" => (~last.done \/ (work = <<>> /\ combos = <<>>))

C20_Witness ==
    /\ cfg = Shipped
    /\ last.inserted
    /\ last.x.xweight = <<"semibold">>
    /\ last.x.xwidth = <<"cond">>
    /\ last.x.xvariant = <<"italic", "-", "smcp">>
    /\ last.x.series = <<"s", "b", "c">>
    /\ last.x.shape = <<"s", "i">>

(* the (series, shape) pairs of a family that have a font *)
realPairs(ef, family) ==
    {<<ef[i].key[2], ef[i].key[3]>> : i \in {j \in 1..Len(ef) : ef[j].key[1] = family}}

(* the declarations of one .fd file: a substitute is declared only for a   *)
(* pair without font, stands in for a pair with a font, and no pair is     *)
(* declared twice                                                          *)
rulesSound(decls, ef, family) ==
    /\ \A i \in 1..Len(decls) :
          decls[i].sub # <<>> =>
            /\ <<decls[i].series, decls[i].shape>> \notin realPairs(ef, family)
            /\ decls[i].sub \in realPairs(ef, family)
    /\ \A i, j \in 1..Len(decls) :
          (decls[i].series = decls[j].series /\ decls[i].shape = decls[j].shape) => i = j

(* C21: in the .fd file of every family the substitution rules (sl for it  *)
(* and it for sl within a series, b for bx, b/it for bx/sl, sb for b and   *)
(* bx) declare a substitute only for a (series, shape) pair that has no    *)
(* explodedFonts entry, always name a pair that has one, and declare no    *)
(* pair twice.                                                             *)
C21_SubstitutesOnlyForMissingShapes ==
    /\ call.fn = "generateFDandSTY" =>
          \A k \in 1..Len(call.result.files) :
              rulesSound(call.result.files[k].decls,
                         familyIndex(call.result.files[k].family, call.args[1]),
                         call.result.files[k].family)
    /\ \A k \in 1..Len(written) :
          written[k].kind = "fd" =>
              rulesSound(written[k].decls, explodedFonts, written[k].family)

C21_Witness ==
    /\ call.fn = "generateFDandSTY"
    /\ call.result.status = "ok"
    /\ Len(call.result.files) = 1
    /\ LET decls == call.result.files[1].decls
       IN  /\ subShape(<<"b", "x">>, sl, <<"b">>, it) \in Range(decls)
           /\ subShape(<<"b", "x">>, it, <<"b">>, it) \in Range(decls)
           /\ subShape(<<"m">>, it, <<"m">>, sl) \in Range(decls)
           /\ Len(decls) = 6

====
